---- MODULE Spec2Model ----
(***************************************************************************)
(* The PDF -> text -> LLM JSON -> spreadsheet pipeline of main.py, one     *)
(* upload request from arrival to its HTTP response.                       *)
(***************************************************************************)
EXTENDS Integers, Sequences, FiniteSets, Bags, TLC

\* disk is the upload folder, shared by every request; the other variables are
\* the local scope of the request whose thread is running; others holds the
\* local scopes of the requests whose threads are not
VARIABLES request, pc, filepath, disk, full_text, response, parsed_data,
          excel_file, exc, http, log, others

vars == <<request, pc, filepath, disk, full_text, response, parsed_data,
          excel_file, exc, http, log, others>>

\* ------------------------------------------------------------- bounds
\* pages of an uploaded PDF
MaxPages == 2
\* records in a model response, in the request pipeline
MaxEntries == 1
\* records handed to the exporter, in the exporter's own specification
MaxRows == 2
\* upload requests in flight together, in the concurrent specification
NumRequests == 2

\* ------------------------------------------------------ Python values
None == [t |-> "NoneType", v |-> ""]
PyStr(s) == [t |-> "str", v |-> s]
PyInt(i) == [t |-> "int", v |-> i]

\* the outcome of a call: a returned value, or a raised exception
Return(x) == [raised |-> FALSE, type |-> "", msg |-> "", value |-> x]
Raise(type, msg) == [raised |-> TRUE, type |-> type, msg |-> msg, value |-> None]

NoExc == [type |-> "", msg |-> ""]
Exc(r) == [type |-> r.type, msg |-> r.msg]

\* text is a sequence of characters; "\n" is one character
NL == "\n"

SeqsUpTo(S, n) == UNION {[1..k -> S] : k \in 0..n}

\* ------------------------------------------------------ uploaded PDFs
\* what page.extract_text() does on one page: raises, returns None (a page
\* with no text layer), or returns a string (possibly empty)
PageOutcomes ==
    { [raises |-> FALSE, isNone |-> FALSE, text |-> <<"a">>],
      [raises |-> FALSE, isNone |-> FALSE, text |-> <<>>],
      [raises |-> FALSE, isNone |-> TRUE,  text |-> <<>>],
      [raises |-> TRUE,  isNone |-> FALSE, text |-> <<>>] }

\* a document: pdfplumber.open succeeds or raises; its pages in order
Pdfs ==
    {[opens |-> FALSE, pages |-> <<>>]}
    \cup {[opens |-> TRUE, pages |-> p] : p \in SeqsUpTo(PageOutcomes, MaxPages)}

\* page.extract_text() or ""
OrEmpty(page) == IF page.isNone \/ page.text = <<>> THEN <<>> ELSE page.text

\* the for loop over pdf.pages: the text accumulated, and whether a page raised
RECURSIVE ReadPages(_, _)
ReadPages(pages, text) ==
    IF pages = <<>> THEN [raised |-> FALSE, text |-> text]
    ELSE IF Head(pages).raises THEN [raised |-> TRUE, text |-> text]
    ELSE ReadPages(Tail(pages), text \o OrEmpty(Head(pages)) \o <<NL>>)

\* the except branch returns what was accumulated instead of ""
extract_text_from_pdf_partial(pdf) ==
    IF ~pdf.opens THEN Return(<<>>)
    ELSE Return(ReadPages(pdf.pages, <<>>).text)

extract_text_from_pdf(pdf) ==
    IF ~pdf.opens THEN Return(<<>>)
    ELSE LET r == ReadPages(pdf.pages, <<>>)
         IN  IF r.raised THEN Return(<<>>) ELSE Return(r.text)

\* --------------------------------------------------- model responses
Fields == {"key", "value", "comments"}

\* a JSON value of a record's field: null or a string
FieldValues == {None, PyStr("x")}

\* a record of the response is a dict: any of the three fields may be missing
Entries == UNION {[D -> FieldValues] : D \in SUBSET Fields}

\* the parsed JSON value: a scalar (null, a number, a boolean) or an object;
\* for an object, whether it has the top-level "entries" key, and the value
\* under it (a list of records, or null)
Docs(n) ==
    {[isObject |-> FALSE, hasEntries |-> FALSE, isList |-> FALSE, items |-> <<>>],
     [isObject |-> TRUE,  hasEntries |-> FALSE, isList |-> FALSE, items |-> <<>>],
     [isObject |-> TRUE,  hasEntries |-> TRUE,  isList |-> FALSE, items |-> <<>>]}
    \cup {[isObject |-> TRUE, hasEntries |-> TRUE, isList |-> TRUE, items |-> e] :
             e \in SeqsUpTo(Entries, n)}

NoDoc == [isObject |-> FALSE, hasEntries |-> FALSE, isList |-> FALSE, items |-> <<>>]

\* model.generate_content(...) and response.text: the call fails, or yields a
\* text that is JSON (of some document) or is not
Responses(n) ==
    {[ok |-> FALSE, isJson |-> FALSE, doc |-> NoDoc],
     [ok |-> TRUE,  isJson |-> FALSE, doc |-> NoDoc]}
    \cup {[ok |-> TRUE, isJson |-> TRUE, doc |-> d] : d \in Docs(n)}

NoResponse == [ok |-> FALSE, isJson |-> FALSE, doc |-> NoDoc]

json_loads(text) ==
    IF text.isJson THEN Return(text.doc)
    ELSE Raise("JSONDecodeError", "Expecting value")

\* ---------------------------------------------------------- exporter
\* the keys of the dict appended per entry, in insertion order
RowKeys == <<"#", "Key", "Value", "Comments">>

\* entry.get(k)
entry_get(entry, k) == IF k \in DOMAIN entry THEN entry[k] ELSE None

\* enumerate(..., start=0)
excel_rows_from0(items) ==
    [i \in 1..Len(items) |->
        ("#" :> PyInt(i - 1)) @@ ("Key" :> entry_get(items[i], "key"))
        @@ ("Value" :> entry_get(items[i], "value"))
        @@ ("Comments" :> entry_get(items[i], "comments"))]

\* the list built by the loop over enumerate(parsed_data["entries"], start=1)
excel_rows(items) ==
    [i \in 1..Len(items) |->
        ("#" :> PyInt(i)) @@ ("Key" :> entry_get(items[i], "key"))
        @@ ("Value" :> entry_get(items[i], "value"))
        @@ ("Comments" :> entry_get(items[i], "comments"))]

\* pd.DataFrame(list of dicts): the columns are the dicts' keys; none for []
DataFrame(rows) ==
    [columns |-> IF rows = <<>> THEN <<>> ELSE RowKeys, data |-> rows]

EmptyCell == [t |-> "empty", v |-> ""]

\* a None is written as the text "None"
Cell_str(v) == IF v = None THEN PyStr("None") ELSE v

\* how to_excel writes one value: None leaves the cell empty
Cell(v) == IF v = None THEN EmptyCell ELSE v

\* df.to_excel(output, index=False): the header row is the columns, then one
\* row per data row, its cells in column order
to_excel(df) ==
    [sheet  |-> "Extracted Data",
     header |-> df.columns,
     rows   |-> [i \in 1..Len(df.data) |->
                    [j \in 1..Len(df.columns) |-> Cell(df.data[i][df.columns[j]])]]]

\* no workbook written
NoExcel == [sheet |-> "", header |-> <<>>, rows |-> <<>>]

\* the ValueError create_excel_from_data raises on a missing "entries" key
InvalidStructure ==
    [type |-> "ValueError", msg |-> "Invalid JSON structure: missing 'entries' key"]

\* parsed_data.get("entries", []): a missing key counts as no entries
create_excel_from_data_default(data) ==
    IF ~data.isObject
    THEN Raise("TypeError", "argument of type 'NoneType' is not iterable")
    ELSE IF data.hasEntries /\ ~data.isList
    THEN Raise("TypeError", "'NoneType' object is not iterable")
    ELSE Return(to_excel(DataFrame(excel_rows(data.items))))

create_excel_from_data(data) ==
    IF ~data.isObject
    THEN Raise("TypeError", "argument of type 'NoneType' is not iterable")
    ELSE IF ~data.hasEntries
    THEN Raise(InvalidStructure.type, InvalidStructure.msg)
    ELSE IF ~data.isList
    THEN Raise("TypeError", "'NoneType' object is not iterable")
    ELSE Return(to_excel(DataFrame(excel_rows(data.items))))

\* ------------------------------------------------------ the request
\* file.filename, as stem and extension; the empty name has neither
Filenames ==
    {[stem |-> "", ext |-> ""], [stem |-> "cv", ext |-> "PDF"],
     [stem |-> "cv", ext |-> "pdf"], [stem |-> "cv", ext |-> "txt"]}

\* str.lower() on the extensions that occur
Lower(ext) == IF ext = "PDF" THEN "pdf" ELSE ext

\* file.filename.lower().endswith('.pdf')
EndsWithPdf(name) == Lower(name.ext) = "pdf"

\* 'file' in request.files, the uploaded file's name and its bytes
Requests == [hasFile : BOOLEAN, filename : Filenames, pdf : Pdfs]

\* uuid.uuid4()
UUIDs == {"u1", "u2", "u3"}

\* the uuids already handed out to requests of this server
IssuedUuids ==
    ({filepath.uuid} \cup {c.filepath.uuid : c \in BagToSet(others)}) \ {""}

UPLOAD_FOLDER == "/tmp/pdf_uploads"

\* the upload is saved under its own name alone: secure_filename(file.filename)
PathOf_name(uuid, name) == [dir |-> UPLOAD_FOLDER, uuid |-> "", name |-> name]

\* os.path.join(UPLOAD_FOLDER, secure_filename(f"{uuid}_{file.filename}"))
PathOf(uuid, name) == [dir |-> UPLOAD_FOLDER, uuid |-> uuid, name |-> name]

NoPath == [dir |-> "", uuid |-> "", name |-> [stem |-> "", ext |-> ""]]

\* pdfplumber.open(path): the file's content; a path with no file does not open
OpenPdf(d, path) ==
    IF \E f \in d : f.path = path
    THEN (CHOOSE f \in d : f.path = path).content
    ELSE [opens |-> FALSE, pages |-> <<>>]

NoHttp == [status |-> 0, error |-> "", body |-> NoExcel]

Init ==
    /\ request \in Requests
    /\ pc = "recv"
    /\ filepath = NoPath
    /\ disk = {}
    /\ full_text = <<>>
    /\ response = NoResponse
    /\ parsed_data = NoDoc
    /\ excel_file = NoExcel
    /\ exc = NoExc
    /\ http = NoHttp
    /\ log = <<>>
    /\ others = EmptyBag

\* upload_pdf: the three early returns
Validate ==
    /\ pc = "recv"
    /\ IF ~request.hasFile
       THEN /\ http' = [status |-> 400, error |-> "No file provided", body |-> NoExcel]
            /\ pc' = "done"
       ELSE IF request.filename.stem = "" /\ request.filename.ext = ""
       THEN /\ http' = [status |-> 400, error |-> "No file selected", body |-> NoExcel]
            /\ pc' = "done"
       ELSE IF ~EndsWithPdf(request.filename)
       THEN /\ http' = [status |-> 400, error |-> "Only PDF files are supported",
                        body |-> NoExcel]
            /\ pc' = "done"
       ELSE /\ http' = http
            /\ pc' = "save"
    /\ UNCHANGED <<others, request, filepath, disk, full_text, response, parsed_data,
                   excel_file, exc, log>>

\* upload_pdf: filename, filepath, file.save(filepath)
SaveUpload ==
    /\ pc = "save"
    /\ \E u \in UUIDs \ IssuedUuids :
          /\ filepath' = PathOf(u, request.filename)
          /\ disk' = {f \in disk : f.path # PathOf(u, request.filename)}
                     \cup {[path |-> PathOf(u, request.filename),
                            content |-> request.pdf]}
    /\ log' = Append(log, "file.save")
    /\ pc' = "extract"
    /\ UNCHANGED <<others, request, full_text, response, parsed_data, excel_file, exc, http>>

\* process_pdf_with_gemini: full_text = extract_text_from_pdf(pdf_path)
ExtractText ==
    /\ pc = "extract"
    /\ LET r == extract_text_from_pdf(OpenPdf(disk, filepath))
       IN  IF r.raised
           THEN /\ exc' = Exc(r)
                /\ pc' = "except"
                /\ full_text' = full_text
           ELSE /\ full_text' = r.value
                /\ pc' = "check"
                /\ exc' = exc
    /\ log' = Append(log, "extract_text_from_pdf")
    /\ UNCHANGED <<others, request, filepath, disk, response, parsed_data, excel_file, http>>

\* the guard tests for None only, which "" is not
CheckText_isNone ==
    /\ pc = "check"
    /\ pc' = "generate"
    /\ UNCHANGED <<others, request, filepath, disk, full_text, response, parsed_data,
                   excel_file, exc, http, log>>

\* process_pdf_with_gemini: if not full_text: raise ValueError(...)
CheckText ==
    /\ pc = "check"
    /\ IF full_text = <<>>
       THEN /\ exc' = [type |-> "ValueError", msg |-> "Failed to extract text from PDF"]
            /\ pc' = "except"
       ELSE /\ exc' = exc
            /\ pc' = "generate"
    /\ UNCHANGED <<others, request, filepath, disk, full_text, response, parsed_data,
                   excel_file, http, log>>

\* the responses drawn when several requests are in flight: the call fails,
\* the text is not JSON, no "entries" key, an empty list, a list of one record
ConcResponses ==
    {[ok |-> FALSE, isJson |-> FALSE, doc |-> NoDoc],
     [ok |-> TRUE,  isJson |-> FALSE, doc |-> NoDoc],
     [ok |-> TRUE,  isJson |-> TRUE,
      doc |-> [isObject |-> TRUE, hasEntries |-> FALSE, isList |-> FALSE, items |-> <<>>]],
     [ok |-> TRUE,  isJson |-> TRUE,
      doc |-> [isObject |-> TRUE, hasEntries |-> TRUE, isList |-> TRUE, items |-> <<>>]],
     [ok |-> TRUE,  isJson |-> TRUE,
      doc |-> [isObject |-> TRUE, hasEntries |-> TRUE, isList |-> TRUE,
               items |-> <<("key" :> PyStr("x")) @@ ("value" :> None)>>]]}

\* what the model may answer to this request
ModelResponses == IF others = EmptyBag THEN Responses(MaxEntries) ELSE ConcResponses

\* process_pdf_with_gemini: build the prompt, model.generate_content(...)
CallModel ==
    /\ pc = "generate"
    /\ \E r \in ModelResponses :
          /\ response' = r
          /\ IF r.ok
             THEN /\ pc' = "parse"
                  /\ exc' = exc
             ELSE /\ pc' = "except"
                  /\ exc' = [type |-> "GoogleAPIError", msg |-> "model call failed"]
    /\ log' = Append(log, "generate_content")
    /\ UNCHANGED <<others, request, filepath, disk, full_text, parsed_data, excel_file, http>>

\* a response that does not parse is asked for again
ParseResponse_retry ==
    /\ pc = "parse"
    /\ LET r == json_loads(response)
       IN  IF r.raised
           THEN /\ pc' = "generate"
                /\ parsed_data' = parsed_data
           ELSE /\ parsed_data' = r.value
                /\ pc' = "export"
    /\ log' = Append(log, "json.loads")
    /\ UNCHANGED <<others, request, filepath, disk, full_text, response, excel_file, exc, http>>

\* a response that does not parse counts as no entries
ParseResponse_lenient ==
    /\ pc = "parse"
    /\ LET r == json_loads(response)
       IN  parsed_data' = IF r.raised
                          THEN [isObject |-> TRUE, hasEntries |-> TRUE,
                                isList |-> TRUE, items |-> <<>>]
                          ELSE r.value
    /\ pc' = "export"
    /\ log' = Append(log, "json.loads")
    /\ UNCHANGED <<others, request, filepath, disk, full_text, response, excel_file, exc, http>>

\* process_pdf_with_gemini: parsed_data = json.loads(response.text); return
ParseResponse ==
    /\ pc = "parse"
    /\ LET r == json_loads(response)
       IN  IF r.raised
           THEN /\ exc' = Exc(r)
                /\ pc' = "except"
                /\ parsed_data' = parsed_data
           ELSE /\ parsed_data' = r.value
                /\ pc' = "export"
                /\ exc' = exc
    /\ log' = Append(log, "json.loads")
    /\ UNCHANGED <<others, request, filepath, disk, full_text, response, excel_file, http>>

\* upload_pdf: excel_file = create_excel_from_data(parsed_data)
CreateExcel ==
    /\ pc = "export"
    /\ LET r == create_excel_from_data(parsed_data)
       IN  IF r.raised
           THEN /\ exc' = Exc(r)
                /\ pc' = "except"
                /\ excel_file' = excel_file
           ELSE /\ excel_file' = r.value
                /\ pc' = "remove"
                /\ exc' = exc
    /\ log' = Append(log, "create_excel_from_data")
    /\ UNCHANGED <<others, request, filepath, disk, full_text, response, parsed_data, http>>

\* upload_pdf: os.remove(filepath)
RemoveUpload ==
    /\ pc = "remove"
    /\ IF \E f \in disk : f.path = filepath
       THEN /\ disk' = {f \in disk : f.path # filepath}
            /\ pc' = "send"
            /\ exc' = exc
       ELSE /\ disk' = disk
            /\ pc' = "except"
            /\ exc' = [type |-> "FileNotFoundError", msg |-> "No such file or directory"]
    /\ log' = Append(log, "os.remove")
    /\ UNCHANGED <<others, request, filepath, full_text, response, parsed_data, excel_file, http>>

\* upload_pdf: return send_file(excel_file, ...)
SendFile ==
    /\ pc = "send"
    /\ http' = [status |-> 200, error |-> "", body |-> excel_file]
    /\ pc' = "done"
    /\ log' = Append(log, "send_file")
    /\ UNCHANGED <<others, request, filepath, disk, full_text, response, parsed_data,
                   excel_file, exc>>

\* upload_pdf: except Exception as e: return jsonify({'error': str(e)}), 500
HandleException ==
    /\ pc = "except"
    /\ http' = [status |-> 500, error |-> exc.msg, body |-> NoExcel]
    /\ pc' = "done"
    /\ UNCHANGED <<others, request, filepath, disk, full_text, response, parsed_data,
                   excel_file, exc, log>>

Next ==
    \/ Validate
    \/ SaveUpload
    \/ ExtractText
    \/ CheckText
    \/ CallModel
    \/ ParseResponse
    \/ CreateExcel
    \/ RemoveUpload
    \/ SendFile
    \/ HandleException

Spec == Init /\ [][Next]_vars

\* ------------------------------------ the exporter on its own inputs
\* a request whose pipeline has just returned parsed_data to upload_pdf
ExportRequest ==
    [hasFile |-> TRUE, filename |-> [stem |-> "cv", ext |-> "pdf"],
     pdf |-> [opens |-> TRUE,
              pages |-> <<[raises |-> FALSE, isNone |-> FALSE, text |-> <<"a">>]>>]]

InitExport ==
    /\ request = ExportRequest
    /\ pc = "export"
    /\ filepath = PathOf("u1", ExportRequest.filename)
    /\ disk = {[path |-> PathOf("u1", ExportRequest.filename),
                content |-> ExportRequest.pdf]}
    /\ full_text = extract_text_from_pdf(ExportRequest.pdf).value
    /\ parsed_data \in Docs(MaxRows)
    /\ response = [ok |-> TRUE, isJson |-> TRUE, doc |-> parsed_data]
    /\ excel_file = NoExcel
    /\ exc = NoExc
    /\ http = NoHttp
    /\ log = <<"file.save", "extract_text_from_pdf", "generate_content", "json.loads">>
    /\ others = EmptyBag

NextExport ==
    \/ CreateExcel
    \/ RemoveUpload
    \/ SendFile
    \/ HandleException

SpecExport == InitExport /\ [][NextExport]_vars

\* ------------------------------------------- requests in flight together
\* the local scope of the running request
Current ==
    [request |-> request, pc |-> pc, filepath |-> filepath, full_text |-> full_text,
     response |-> response, parsed_data |-> parsed_data, excel_file |-> excel_file,
     exc |-> exc, http |-> http, log |-> log]

\* the local scope of a request that has just arrived
Arrived(r) ==
    [request |-> r, pc |-> "recv", filepath |-> NoPath, full_text |-> <<>>,
     response |-> NoResponse, parsed_data |-> NoDoc, excel_file |-> NoExcel,
     exc |-> NoExc, http |-> NoHttp, log |-> <<>>]

\* the uploads sent together: all named cv.pdf; a file that does not open, a
\* page of text, a page with no text layer
ConcRequests ==
    {[hasFile |-> TRUE, filename |-> [stem |-> "cv", ext |-> "pdf"], pdf |-> p] :
        p \in {[opens |-> FALSE, pages |-> <<>>],
               [opens |-> TRUE,
                pages |-> <<[raises |-> FALSE, isNone |-> FALSE, text |-> <<"a">>]>>],
               [opens |-> TRUE,
                pages |-> <<[raises |-> FALSE, isNone |-> TRUE, text |-> <<>>]>>]}}

RECURSIVE BagsOfSize(_, _)
BagsOfSize(S, k) ==
    IF k = 0 THEN {EmptyBag}
    ELSE {b (+) SetToBag({c}) : b \in BagsOfSize(S, k - 1), c \in S}

InitConc ==
    /\ request \in ConcRequests
    /\ pc = "recv"
    /\ filepath = NoPath
    /\ disk = {}
    /\ full_text = <<>>
    /\ response = NoResponse
    /\ parsed_data = NoDoc
    /\ excel_file = NoExcel
    /\ exc = NoExc
    /\ http = NoHttp
    /\ log = <<>>
    /\ others \in BagsOfSize({Arrived(r) : r \in ConcRequests}, NumRequests - 1)

\* the server's threads: the running request's thread is suspended between
\* two of its steps and another request's thread runs
Switch ==
    /\ \E c \in BagToSet(others) :
          /\ c # Current
          /\ others' = (others (-) SetToBag({c})) (+) SetToBag({Current})
          /\ request' = c.request
          /\ pc' = c.pc
          /\ filepath' = c.filepath
          /\ full_text' = c.full_text
          /\ response' = c.response
          /\ parsed_data' = c.parsed_data
          /\ excel_file' = c.excel_file
          /\ exc' = c.exc
          /\ http' = c.http
          /\ log' = c.log
    /\ UNCHANGED disk

NextConc ==
    \/ Validate
    \/ SaveUpload
    \/ ExtractText
    \/ CheckText
    \/ CallModel
    \/ ParseResponse
    \/ CreateExcel
    \/ RemoveUpload
    \/ SendFile
    \/ HandleException
    \/ Switch

SpecConc == InitConc /\ [][NextConc]_vars

\* ------------------------------------------------------------ claims
\* the stage has run in this invocation
Ran(stage) == \E i \in 1..Len(log) : log[i] = stage

\* how many times the stage has run
Times(stage) == Cardinality({i \in 1..Len(log) : log[i] = stage})

HasFile(path) == \E f \in disk : f.path = path

\* the ValueError process_pdf_with_gemini raises on an empty text
EmptyTextError == [type |-> "ValueError", msg |-> "Failed to extract text from PDF"]

\* an exception has escaped extract_text_from_pdf: one is pending right after
\* the extractor ran, and it is not the caller's own ValueError
ExtractorRaised ==
    /\ Len(log) = 2
    /\ log[2] = "extract_text_from_pdf"
    /\ exc # NoExc
    /\ exc # EmptyTextError

Http500(msg) == [status |-> 500, error |-> msg, body |-> NoExcel]

\* C1: when the extractor has returned "", the model is never called in that
\* invocation, the pipeline raises the extraction failure, and the request
\* ends with that error as its response.
C1_EmptyTextFailsBeforeModel ==
    (Ran("extract_text_from_pdf") /\ full_text = <<>>) =>
        /\ ~Ran("generate_content")
        /\ pc \in {"check", "except", "done"}
        /\ pc = "except" => exc = EmptyTextError
        /\ pc = "done" => http = Http500("Failed to extract text from PDF")

C1_Witness ==
    /\ pc = "done"
    /\ Ran("extract_text_from_pdf")
    /\ full_text = <<>>
    /\ http = Http500("Failed to extract text from PDF")

\* a PDF that opens and whose pages all yield no text (None or ""), none raising
NoTextPdf(pdf) ==
    /\ pdf.opens
    /\ \A i \in 1..Len(pdf.pages) :
          ~pdf.pages[i].raises /\ OrEmpty(pdf.pages[i]) = <<>>

\* C2: for a PDF that opens and whose pages all yield no text (any number of
\* pages, zero included), extract_text_from_pdf returns "" and raises nothing.
C2_NoTextPdfYieldsEmpty ==
    (Ran("extract_text_from_pdf") /\ NoTextPdf(request.pdf)) =>
        /\ full_text = <<>>
        /\ ~ExtractorRaised

\* the response parsed as JSON and the value has no top-level "entries" key
MissingEntries ==
    /\ Ran("json.loads")
    /\ response.isJson
    /\ ~response.doc.hasEntries

C4_StagedFileReleased ==
    (pc = "done" /\ Ran("file.save")) => ~HasFile(filepath)

AllStages ==
    <<"file.save", "extract_text_from_pdf", "generate_content", "json.loads",
      "create_excel_from_data", "os.remove", "send_file">>

\* the response of a finished request: a 400 before anything ran, a 500 with
\* no artifact, or the artifact of the model's document after every stage
\* succeeded on this request's inputs
C5_ArtifactOnlyOnSuccess ==
    pc = "done" =>
        \/ http.status = 400 /\ http.body = NoExcel /\ log = <<>>
        \/ http.status = 500 /\ http.body = NoExcel /\ exc # NoExc
        \/ /\ http.status = 200
           /\ exc = NoExc
           /\ log = AllStages
           /\ request.pdf.opens
           /\ \A i \in 1..Len(request.pdf.pages) : ~request.pdf.pages[i].raises
           /\ response.ok /\ response.isJson
           /\ response.doc.hasEntries /\ response.doc.isList
           /\ http.body.sheet = "Extracted Data"
           /\ Len(http.body.rows) = Len(response.doc.items)

\* C5: a stage's error aborts the invocation: once an exception is raised no
\* further stage runs, and the response is the artifact only when every stage
\* succeeded, an error otherwise.
C5_ErrorsAbort ==
    /\ [](C5_ArtifactOnlyOnSuccess)
    /\ [][exc # NoExc => (log' = log /\ exc' = exc /\ excel_file' = excel_file)]_vars

C5_Witness ==
    /\ pc = "done"
    /\ http.status = 500
    /\ exc.type = "JSONDecodeError"
    /\ log = <<"file.save", "extract_text_from_pdf", "generate_content", "json.loads">>

\* the cell written for field k of a record: empty when k is missing or null
CellOf(entry, k) ==
    IF k \in DOMAIN entry /\ entry[k] # None THEN entry[k] ELSE EmptyCell

\* the exporter has run on a document whose "entries" is a list
Exported ==
    /\ Ran("create_excel_from_data")
    /\ parsed_data.hasEntries
    /\ parsed_data.isList

\* C6: for n records the exporter writes exactly n data rows, row i carrying
\* index i and the key, value and comments of the i-th record, in order.
C6_RowsInOrder ==
    Exported =>
        /\ exc = NoExc
        /\ Len(excel_file.rows) = Len(parsed_data.items)
        /\ \A i \in 1..Len(parsed_data.items) :
              excel_file.rows[i] =
                  <<PyInt(i), CellOf(parsed_data.items[i], "key"),
                    CellOf(parsed_data.items[i], "value"),
                    CellOf(parsed_data.items[i], "comments")>>

C6_Witness ==
    /\ Exported
    /\ http.status = 200
    /\ Len(parsed_data.items) = 2
    /\ parsed_data.items[1] # parsed_data.items[2]
    /\ "key" \in DOMAIN parsed_data.items[1]
    /\ parsed_data.items[1]["key"] = PyStr("x")
    /\ "key" \notin DOMAIN parsed_data.items[2]

\* C7: whenever "entries" is present, empty included, the artifact has the
\* header row #, Key, Value, Comments and one row per entry.
C7_HeaderAlways ==
    Exported =>
        /\ excel_file.header = RowKeys
        /\ Len(excel_file.rows) = Len(parsed_data.items)

\* record i has a null or missing value or comments
Sparse(entry) ==
    \/ entry_get(entry, "value") = None
    \/ entry_get(entry, "comments") = None

\* C8: a record whose value or comments is null or missing does not make the
\* exporter fail; its row stands at its position with that cell empty.
C8_NullTolerated ==
    (Exported /\ \E i \in 1..Len(parsed_data.items) : Sparse(parsed_data.items[i])) =>
        /\ exc = NoExc
        /\ pc # "except"
        /\ Len(excel_file.rows) = Len(parsed_data.items)
        /\ \A i \in 1..Len(parsed_data.items) :
              /\ excel_file.rows[i][1] = PyInt(i)
              /\ entry_get(parsed_data.items[i], "value") = None
                    => excel_file.rows[i][3] = EmptyCell
              /\ entry_get(parsed_data.items[i], "comments") = None
                    => excel_file.rows[i][4] = EmptyCell
              /\ entry_get(parsed_data.items[i], "value") # None
                    => excel_file.rows[i][3] = parsed_data.items[i]["value"]
              /\ entry_get(parsed_data.items[i], "comments") # None
                    => excel_file.rows[i][4] = parsed_data.items[i]["comments"]

C8_Witness ==
    /\ Exported
    /\ http.status = 200
    /\ Len(parsed_data.items) = 2
    /\ "value" \notin DOMAIN parsed_data.items[1]
    /\ "comments" \in DOMAIN parsed_data.items[1]
    /\ parsed_data.items[1]["comments"] = None
    /\ ~Sparse(parsed_data.items[2])

\* the document does not open, or one of its pages raises on extraction
Unreadable(pdf) == ~pdf.opens \/ \E i \in 1..Len(pdf.pages) : pdf.pages[i].raises

\* C9: extract_text_from_pdf never raises; when the document does not open
\* or a page raises, it returns "", not the text read so far.
C9_ExtractNeverRaises ==
    Ran("extract_text_from_pdf") =>
        /\ ~ExtractorRaised
        /\ Unreadable(request.pdf) => full_text = <<>>

C9_Witness ==
    /\ pc = "check"
    /\ request.pdf.opens
    /\ Len(request.pdf.pages) = 2
    /\ request.pdf.pages[1].text = <<"a">>
    /\ request.pdf.pages[2].raises
    /\ full_text = <<>>

\* the model call, the parse or the schema failed in this invocation
StructuringFailed ==
    /\ Ran("generate_content")
    /\ ~response.ok \/ ~response.isJson \/ ~response.doc.hasEntries

\* C10: the model is called at most once per invocation and no stage runs
\* twice; a failed call, an unparsable response or a missing "entries" ends
\* the request with the error.
C10_NoRetry ==
    /\ Times("generate_content") <= 1
    /\ \A i, j \in 1..Len(log) : log[i] = log[j] => i = j
    /\ (pc = "done" /\ StructuringFailed) =>
          (http.status = 500 /\ http.error = exc.msg /\ http.body = NoExcel)

C10_Witness ==
    /\ pc = "done"
    /\ Times("generate_content") = 1
    /\ response.ok
    /\ ~response.isJson
    /\ http.status = 500

\* every request of the server, running or suspended
Scopes == {Current} \cup BagToSet(others)

\* how many requests have scope c
CopiesOf(c) == CopiesIn(c, others) + (IF c = Current THEN 1 ELSE 0)

ScopeRan(c, stage) == \E i \in 1..Len(c.log) : c.log[i] = stage

\* the response a request gets when it is the only one: from its own upload
\* and the model's answer to it alone
SoloOutcome(req, resp) ==
    IF ~req.hasFile THEN [status |-> 400, error |-> "No file provided", body |-> NoExcel]
    ELSE IF req.filename.stem = "" /\ req.filename.ext = ""
    THEN [status |-> 400, error |-> "No file selected", body |-> NoExcel]
    ELSE IF ~EndsWithPdf(req.filename)
    THEN [status |-> 400, error |-> "Only PDF files are supported", body |-> NoExcel]
    ELSE IF extract_text_from_pdf(req.pdf).value = <<>> THEN Http500(EmptyTextError.msg)
    ELSE IF ~resp.ok THEN Http500("model call failed")
    ELSE IF json_loads(resp).raised THEN Http500(json_loads(resp).msg)
    ELSE IF create_excel_from_data(resp.doc).raised
    THEN Http500(create_excel_from_data(resp.doc).msg)
    ELSE [status |-> 200, error |-> "", body |-> create_excel_from_data(resp.doc).value]

\* C11: with several uploads in flight, interleaved in any way and under the
\* same file name, every request stages at a path of its own, its staged file
\* stays on disk with its own content until it removes it itself, the text it
\* extracts is that of its own upload, what it parses and exports is the
\* model's answer to it, and its response is the one it gets when run alone.
C11_Isolated ==
    \A c \in Scopes :
        /\ ScopeRan(c, "file.save") =>
              /\ CopiesOf(c) = 1
              /\ \A d \in Scopes \ {c} :
                    ScopeRan(d, "file.save") => d.filepath # c.filepath
        /\ (ScopeRan(c, "file.save") /\ ~ScopeRan(c, "os.remove")) =>
              /\ [path |-> c.filepath, content |-> c.request.pdf] \in disk
              /\ Cardinality({f \in disk : f.path = c.filepath}) = 1
        /\ ScopeRan(c, "extract_text_from_pdf") =>
              c.full_text = extract_text_from_pdf(c.request.pdf).value
        /\ ScopeRan(c, "json.loads") /\ c.response.isJson =>
              c.parsed_data = c.response.doc
        /\ ScopeRan(c, "os.remove") =>
              /\ c.exc = NoExc
              /\ c.excel_file = create_excel_from_data(c.response.doc).value
        /\ c.pc = "done" => c.http = SoloOutcome(c.request, c.response)

\* two uploads of the same name staged at the same time: the running request
\* has exported and is about to remove its file, the other has not read its
\* own yet
C11_Witness ==
    /\ pc = "remove"
    /\ \E c \in BagToSet(others) :
          /\ c.pc = "extract"
          /\ c.request.filename = request.filename
          /\ c.request.pdf # request.pdf
          /\ c.filepath # filepath
          /\ HasFile(c.filepath) /\ HasFile(filepath)

====
